---------------------------- MODULE Spec2Model ----------------------------
(***************************************************************************)
(* Model of the real-time quantitative analytics backend:                  *)
(*   - DataStorage        (src/backend/data_storage.py): the per-symbol    *)
(*     tick buffer, the OHLCV resampler and its SQLite mirror;             *)
(*   - QuantAnalytics / PairAnalysis (src/backend/analytics.py);           *)
(*   - MarketDataIngestion (src/backend/data_ingestion.py).                *)
(***************************************************************************)
EXTENDS Integers, Sequences, FiniteSets, TLC

(***************************************************************************)
(* Bounds of the model.  Capacity, RecentLimit and TailRows stand for the  *)
(* source's deque(maxlen=10000), get_recent_ticks(limit=1000) and          *)
(* ohlcv.tail(100); they are scaled down, keeping                          *)
(* Capacity > RecentLimit >= 2, so that eviction, the read limit and the   *)
(* persisted tail all happen within a few ticks.                           *)
(***************************************************************************)
Capacity == 3
RecentLimit == 2
TailRows == 1
\* the longest run of DataStorage calls explored
MaxOps == 5
\* the most add_tick calls explored when the whole history is kept
MaxHist == 4
\* the longest close-price series and the largest rolling window analysed
MaxLen == 12
MaxWindow == 12

\* the symbols ticks carry (the feed's field 's')
Symbols == {"BTCUSDT", "ETHUSDT"}

\* config.TIMEFRAMES: name -> bucket width in seconds
Seconds1s == 1
Seconds1m == 60
Seconds5m == 300
TIMEFRAMES == [tf \in {"1s", "1m", "5m"} |->
                 IF tf = "1s" THEN Seconds1s
                 ELSE IF tf = "1m" THEN Seconds1m ELSE Seconds5m]
TimeframeNames == DOMAIN TIMEFRAMES

\* the trade times (seconds), prices and quantities a tick is drawn from
TimeStamps == {0, 60}
Prices == {1, 2}
Quantities == {1, 2}
Ticks == [timestamp : TimeStamps, price : Prices, quantity : Quantities]

VARIABLES
  tick_buffer,     \* DataStorage.tick_buffer: symbol -> deque of ticks (keys = DOMAIN)
  key_order,       \* the keys of tick_buffer in insertion order, as a dict iterates them
  resampled_data,  \* DataStorage.resampled_data: <<symbol, timeframe>> -> bars
  db,              \* rows of the SQLite table ohlcv
  last,            \* the last DataStorage call and what it returned
  added,           \* history: every tick handed to add_tick, per symbol, in call order
  snapshot,        \* history: <<symbol, timeframe>> -> the ticks its latest resample
                   \* read and the bar times of the table that pass replaced
  nops,            \* number of DataStorage calls so far
  in_prices1,      \* analyze_pair: the first close-price series
  in_prices2,      \* analyze_pair: the second close-price series
  in_window,       \* analyze_pair: the rolling window
  adf_outcome,     \* what adfuller reports if analyze_pair calls it
  analysis,        \* what analyze_pair returned, and the series it computed
  ols              \* what compute_ols_hedge_ratio returned on the same two series

storeVars == <<tick_buffer, key_order, resampled_data, db, last, added, snapshot, nops>>
pairVars == <<in_prices1, in_prices2, in_window, adf_outcome, analysis, ols>>

VARIABLES
  running,      \* MarketDataIngestion.running
  phase,        \* "new" before start(), "started", "closing" while stop() closes the
                \* stored connections, "stopped" after stop() returned, "stop_raised"
                \* after stop() raised
  pc,           \* where each symbol's connect_symbol coroutine stands
  websockets,   \* keys of MarketDataIngestion.websockets
  ws_order,     \* the keys of MarketDataIngestion.websockets in insertion order
  closing,      \* stop()'s "for ws in self.websockets.values()": the keys from the one
                \* whose close is awaited on, whether the loop replaced that key's
                \* connection meanwhile, and the size of the dict when the iteration began
  ws_open,      \* whether the connection stored for the symbol is open
  failure,      \* history: what last failed in the symbol's loop since its last connect attempt
  attempts,     \* history: connect attempts of the symbol (saturating at MaxAttempts)
  delivered,    \* history: ticks the sink accepted from the symbol (saturating at MaxDelivered)
  dropped,      \* history: whether the symbol's loop discarded a message at "if not self.running: break"
  received      \* history: the trade ticks the symbol's loop received, in the order received

connVars == <<running, phase, pc, websockets, ws_order, closing, ws_open, failure, attempts,
             delivered, dropped,
             received>>

VARIABLES
  loop_pc,      \* where resampling_loop stands: "sleep" or "pass"
  pass_todo,    \* the <<symbol, timeframe>> pairs the running pass has still to resample
  pass_pairs,   \* history: the pairs the latest pass set out to resample
  pass_done     \* history: the pairs the latest pass called resample_to_ohlcv for

loopVars == <<loop_pc, pass_todo, pass_pairs, pass_done>>
vars == <<storeVars, pairVars, connVars, loopVars>>

----------------------------------------------------------------------------
(* Sequence helpers *)

Min(a, b) == IF a < b THEN a ELSE b
Max(a, b) == IF a > b THEN a ELSE b

\* s[-n:] of Python / .tail(n) of pandas, for n >= 1
LastN(s, n) == IF Len(s) > n THEN SubSeq(s, Len(s) - n + 1, Len(s)) ELSE s

RECURSIVE SeqSum(_)
SeqSum(s) == IF s = <<>> THEN 0 ELSE Head(s) + SeqSum(Tail(s))

RECURSIVE SeqMax(_)
SeqMax(s) == IF Len(s) = 1 THEN s[1] ELSE Max(s[1], SeqMax(Tail(s)))

RECURSIVE SeqMin(_)
SeqMin(s) == IF Len(s) = 1 THEN s[1] ELSE Min(s[1], SeqMin(Tail(s)))

----------------------------------------------------------------------------
(* DataStorage *)

\* defaultdict(lambda: deque(maxlen=10000)).__getitem__: the deque under key
\* sym, empty when the key is missing
BufferOf(buf, sym) == IF sym \in DOMAIN buf THEN buf[sym] ELSE <<>>

\* defaultdict.__getitem__ inserts a missing key with an empty deque
Touch(buf, sym) == [s \in DOMAIN buf \cup {sym} |-> BufferOf(buf, s)]
\* a key the dict gains is iterated after the keys it had
TouchOrder(order, buf, sym) == IF sym \in DOMAIN buf THEN order ELSE Append(order, sym)

\* deque(maxlen=Capacity).append: drop the head when full, append at the tail
DequeAppendDropsTail(dq, tick) ==
  IF Len(dq) >= Capacity THEN SubSeq(dq, 1, Capacity - 1) \o <<tick>>
  ELSE Append(dq, tick)
DequeAppendLeft(dq, tick) ==
  IF Len(dq) >= Capacity THEN <<tick>> \o SubSeq(dq, 1, Capacity - 1) ELSE <<tick>> \o dq
DequeAppend(dq, tick) ==
  IF Len(dq) >= Capacity THEN Append(Tail(dq), tick) ELSE Append(dq, tick)

\* get_recent_ticks(symbol, limit): ticks[-limit:] if len(ticks) > limit else ticks
\* (Python: ticks[-0:] is the whole list)
RecentTicks(buf, sym, limit) ==
  LET ticks == BufferOf(buf, sym)
  IN IF Len(ticks) > limit
     THEN (IF limit = 0 THEN ticks
           ELSE SubSeq(ticks, Len(ticks) - limit + 1, Len(ticks)))
     ELSE ticks

\* pandas sorts a non-monotonic index with a stable sort before binning
\* (resample keeps arrival order among equal timestamps)
RECURSIVE InsertByTime(_, _)
InsertByTime(sorted, t) ==
  IF sorted = <<>> THEN <<t>>
  ELSE IF t.timestamp < Head(sorted).timestamp THEN <<t>> \o sorted
  ELSE <<Head(sorted)>> \o InsertByTime(Tail(sorted), t)

RECURSIVE SortByTime(_)
SortByTime(ticks) ==
  IF ticks = <<>> THEN <<>>
  ELSE InsertByTime(SortByTime(SubSeq(ticks, 1, Len(ticks) - 1)), ticks[Len(ticks)])

\* .resample(f'{seconds}s'): left-closed buckets aligned to multiples of seconds
BucketStart(ts, seconds) == ts - (ts % seconds)

TicksIn(ticks, b, seconds) ==
  SelectSeq(ticks, LAMBDA t : BucketStart(t.timestamp, seconds) = b)

PriceSeq(ticks) == [i \in 1..Len(ticks) |-> ticks[i].price]
QuantitySeq(ticks) == [i \in 1..Len(ticks) |-> ticks[i].quantity]

\* .agg({'price': ['first','max','min','last'], 'quantity': 'sum'}) of one bucket;
\* an empty bucket aggregates to NaN prices and a zero sum.  A row's field nan
\* says that its prices are NaN (they are then written 0 here)
AggBucket(ticks, b, seconds) ==
  LET sel == TicksIn(ticks, b, seconds)
  IN IF sel = <<>>
     THEN [timestamp |-> b, nan |-> TRUE, open |-> 0, high |-> 0, low |-> 0,
           close |-> 0, volume |-> 0]
     ELSE [timestamp |-> b, nan |-> FALSE,
           open |-> sel[1].price,
           high |-> SeqMax(PriceSeq(sel)),
           low |-> SeqMin(PriceSeq(sel)),
           close |-> sel[Len(sel)].price,
           volume |-> SeqSum(QuantitySeq(sel))]

\* the resampled frame: one row per bucket from the first tick's to the last's
ResampleAgg(ticks, seconds) ==
  LET sorted == SortByTime(ticks)
      lo == BucketStart(sorted[1].timestamp, seconds)
      hi == BucketStart(sorted[Len(sorted)].timestamp, seconds)
      starts == [i \in 1..((hi - lo) \div seconds + 1) |-> lo + (i - 1) * seconds]
  IN [i \in 1..Len(starts) |-> AggBucket(sorted, starts[i], seconds)]

\* ohlcv.dropna(subset=['close'])
DropNaCloseKeepsAll(frame) == frame
DropNaClose(frame) == SelectSeq(frame, LAMBDA row : ~row.nan)

\* lines 74-92 of resample_to_ohlcv: the bars computed from the ticks read
ComputeOhlcv(ticks, seconds) == DropNaClose(ResampleAgg(ticks, seconds))

\* self.resampled_data[symbol][timeframe] = ohlcv
StoreTableMerges(rd, sym, tf, ohlcv) ==
  [k \in DOMAIN rd \cup {<<sym, tf>>} |->
     IF k = <<sym, tf>>
     THEN (IF k \in DOMAIN rd
           THEN SelectSeq(rd[k], LAMBDA r :
                           \A i \in 1..Len(ohlcv) : ohlcv[i].timestamp # r.timestamp)
                \o ohlcv
           ELSE ohlcv)
     ELSE rd[k]]
StoreTableAppends(rd, sym, tf, ohlcv) ==
  [k \in DOMAIN rd \cup {<<sym, tf>>} |->
     IF k = <<sym, tf>> THEN (IF k \in DOMAIN rd THEN rd[k] \o ohlcv ELSE ohlcv)
     ELSE rd[k]]
StoreTable(rd, sym, tf, ohlcv) ==
  [k \in DOMAIN rd \cup {<<sym, tf>>} |-> IF k = <<sym, tf>> THEN ohlcv ELSE rd[k]]

\* one row of the ohlcv table for a bar
DbRow(sym, tf, bar) ==
  [symbol |-> sym, timeframe |-> tf, timestamp |-> bar.timestamp,
   open |-> bar.open, high |-> bar.high, low |-> bar.low,
   close |-> bar.close, volume |-> bar.volume]

SameKey(r1, r2) ==
  /\ r1.symbol = r2.symbol
  /\ r1.timeframe = r2.timeframe
  /\ r1.timestamp = r2.timestamp

\* INSERT OR REPLACE under UNIQUE(symbol, timeframe, timestamp)
InsertOrReplaceKeepsOld(rows, r) == rows \cup {r}
InsertOrReplace(rows, r) == {x \in rows : ~SameKey(x, r)} \cup {r}

RECURSIVE InsertAll(_, _, _, _, _)
InsertAll(rows, sym, tf, df, bad) ==
  IF df = <<>> THEN rows
  ELSE InsertAll(IF Head(df).timestamp \in bad THEN rows
                 ELSE InsertOrReplace(rows, DbRow(sym, tf, Head(df))),
                 sym, tf, Tail(df), bad)

\* _persist_ohlcv(symbol, timeframe, df); fail is where the store fails:
\* "connect" (sqlite3.connect raises), "rows" (execute raises for the rows
\* whose timestamp is in bad; caught and logged), "commit" (commit raises)
PersistRaises(df, fail) == df # <<>> /\ fail \in {"connect", "commit"}
PersistRows(rows, sym, tf, df, fail, bad) ==
  IF df = <<>> \/ fail \in {"connect", "commit"} THEN rows
  ELSE InsertAll(rows, sym, tf, df, IF fail = "rows" THEN bad ELSE {})

NoBars == <<>>
RetNone == [kind |-> "none", bars |-> NoBars]
RetRaised == [kind |-> "raised", bars |-> NoBars]
RetBars(bars) == [kind |-> "bars", bars |-> bars]
RetTicks(ticks) == [kind |-> "ticks", bars |-> ticks]

\* the record of a call: again says that the call before it was the same
\* resample call (same symbol and timeframe); limit is the limit a
\* get_recent_ticks call was given (0 for the other calls)
Call(op, sym, tf, fail, ret) ==
  [op |-> op, sym |-> sym, tf |-> tf, fail |-> fail, ret |-> ret, limit |-> 0,
   again |-> op = "resample" /\ last.op = "resample" /\ last.sym = sym /\ last.tf = tf]

\* async add_tick(tick), tick['symbol'] = sym
add_tick(sym, tick) ==
  /\ tick_buffer' = [s \in DOMAIN tick_buffer \cup {sym} |->
                       IF s = sym THEN DequeAppend(BufferOf(tick_buffer, sym), tick)
                       ELSE tick_buffer[s]]
  /\ key_order' = TouchOrder(key_order, tick_buffer, sym)
  /\ last' = Call("add", sym, "-", "-", RetNone)
  /\ UNCHANGED <<resampled_data, db, snapshot>>

\* get_recent_ticks(symbol, limit)
get_recent_ticks(sym, limit) ==
  /\ tick_buffer' = Touch(tick_buffer, sym)
  /\ key_order' = TouchOrder(key_order, tick_buffer, sym)
  /\ last' = [Call("recent", sym, "-", "-", RetTicks(RecentTicks(tick_buffer, sym, limit)))
                EXCEPT !.limit = limit]
  /\ UNCHANGED <<resampled_data, db, snapshot>>

\* get_ohlcv(symbol, timeframe, limit): the tail of the table, an empty frame
\* when there is none
get_ohlcv(tables, sym, tf, limit) ==
  IF <<sym, tf>> \in DOMAIN tables THEN LastN(tables[<<sym, tf>>], limit) ELSE <<>>

\* get_all_symbols(): list(self.tick_buffer.keys())
get_all_symbols(buf) == DOMAIN buf

\* "if len(ticks) < 2: return None"
TooFewTicksOnlyEmpty(ticks) == Len(ticks) < 1
TooFewTicks(ticks) == Len(ticks) < 2

\* async resample_to_ohlcv(symbol, timeframe, seconds)
resample_to_ohlcv(sym, tf, seconds, fail, bad) ==
  LET ticks == RecentTicks(tick_buffer, sym, RecentLimit)
  IN /\ tick_buffer' = Touch(tick_buffer, sym)
     /\ key_order' = TouchOrder(key_order, tick_buffer, sym)
     /\ IF TooFewTicks(ticks)
        THEN /\ fail = "none" /\ bad = {}
             /\ last' = Call("resample", sym, tf, fail, RetNone)
             /\ UNCHANGED <<resampled_data, db, snapshot>>
        ELSE LET ohlcv == ComputeOhlcv(ticks, seconds)
                 tail == LastN(ohlcv, TailRows)
             IN /\ (fail = "rows") =
                     (bad # {} /\ bad \subseteq {tail[i].timestamp : i \in 1..Len(tail)})
                /\ resampled_data' = StoreTable(resampled_data, sym, tf, ohlcv)
                /\ snapshot' = [k \in DOMAIN snapshot \cup {<<sym, tf>>} |->
                                  IF k = <<sym, tf>>
                                  THEN [ticks |-> ticks,
                                        replaced |->
                                          IF k \in DOMAIN resampled_data
                                          THEN {resampled_data[k][i].timestamp :
                                                  i \in 1..Len(resampled_data[k])}
                                          ELSE {}]
                                  ELSE snapshot[k]]
                /\ db' = PersistRows(db, sym, tf, tail, fail, bad)
                /\ last' = Call("resample", sym, tf, fail,
                                IF PersistRaises(tail, fail) THEN RetRaised
                                ELSE RetBars(ohlcv))

Fails == {"none", "connect", "rows", "commit"}

StoreInit ==
  /\ tick_buffer = <<>>
  /\ key_order = <<>>
  /\ resampled_data = <<>>
  /\ db = {}
  /\ last = [op |-> "init", sym |-> "-", tf |-> "-", fail |-> "-", ret |-> RetNone,
             limit |-> 0, again |-> FALSE]
  /\ added = [s \in Symbols |-> <<>>]
  /\ snapshot = <<>>
  /\ nops = 0

(* The tick buffer alone, with the history of every add *)
BufferAdd(sym, tick) ==
  /\ nops < MaxHist
  /\ add_tick(sym, tick)
  /\ added' = [added EXCEPT ![sym] = Append(@, tick)]
  /\ nops' = nops + 1
  /\ UNCHANGED <<pairVars, connVars, loopVars>>

BufferRecent(sym, limit) ==
  /\ get_recent_ticks(sym, limit)
  /\ UNCHANGED <<added, nops>>
  /\ UNCHANGED <<pairVars, connVars, loopVars>>

\* the buffer does not look into a tick: one quantity is enough here
BufferTicks == {tick \in Ticks : tick.quantity = 1}

BufferNext ==
  \/ \E sym \in Symbols, tick \in BufferTicks : BufferAdd(sym, tick)
  \/ \E sym \in Symbols, limit \in 0..(Capacity + 1) : BufferRecent(sym, limit)

(* The buffer and the resampler, with a store that does not fail *)
StoreAdd(sym, tick) ==
  /\ nops < MaxOps
  /\ add_tick(sym, tick)
  /\ nops' = nops + 1
  /\ UNCHANGED added
  /\ UNCHANGED <<pairVars, connVars, loopVars>>

StoreResample(sym, tf) ==
  /\ nops < MaxOps
  /\ resample_to_ohlcv(sym, tf, TIMEFRAMES[tf], "none", {})
  /\ nops' = nops + 1
  /\ UNCHANGED added
  /\ UNCHANGED <<pairVars, connVars, loopVars>>

StoreSymbols == {"BTCUSDT"}

StoreNext ==
  \/ \E sym \in StoreSymbols, tick \in Ticks : StoreAdd(sym, tick)
  \/ \E sym \in StoreSymbols, tf \in TimeframeNames : StoreResample(sym, tf)

(* The buffer and the resampler, with a store that may fail at any step *)
MaxFail == 4

FailAdd(sym, tick) ==
  /\ nops < MaxFail
  /\ add_tick(sym, tick)
  /\ nops' = nops + 1
  /\ UNCHANGED added
  /\ UNCHANGED <<pairVars, connVars, loopVars>>

FailResample(sym, tf, fail, bad) ==
  /\ nops < MaxFail
  /\ resample_to_ohlcv(sym, tf, TIMEFRAMES[tf], fail, bad)
  /\ nops' = nops + 1
  /\ UNCHANGED added
  /\ UNCHANGED <<pairVars, connVars, loopVars>>

StoreFailNext ==
  \/ \E sym \in StoreSymbols, tick \in Ticks : FailAdd(sym, tick)
  \/ \E sym \in StoreSymbols, tf \in TimeframeNames, fail \in Fails, bad \in SUBSET TimeStamps :
       FailResample(sym, tf, fail, bad)

----------------------------------------------------------------------------
(* Numbers of the analytics engine.  A float is modelled exactly:           *)
(*   Rat(n, d)       the rational n/d, in lowest terms, d > 0;              *)
(*   Root(sg, n, d)  sg * sqrt(n/d), sg in {-1, 0, 1}, n/d in lowest terms  *)
(*                   (a standard deviation, a z-score, a correlation);      *)
(*   Num             a finite float whose value is not modelled;            *)
(*   NaN, PosInf, NegInf, and None, Python's None (the "missing" marker).   *)

Abs(x) == IF x < 0 THEN -x ELSE x
Sign(x) == IF x < 0 THEN -1 ELSE IF x = 0 THEN 0 ELSE 1

RECURSIVE GCD(_, _)
GCD(a, b) == IF b = 0 THEN a ELSE GCD(b, a % b)

Rat(n, d) ==
  LET g == GCD(Abs(n), Abs(d))
  IN [k |-> "rat", sg |-> Sign(n) * Sign(d), n |-> Abs(n) \div g, d |-> Abs(d) \div g]
Root(sg, n, d) ==
  IF sg = 0 \/ n = 0 THEN [k |-> "root", sg |-> 0, n |-> 0, d |-> 1]
  ELSE LET g == GCD(n, d)
       IN [k |-> "root", sg |-> sg, n |-> n \div g, d |-> d \div g]
Num == [k |-> "num", sg |-> 0, n |-> 0, d |-> 1]
NaN == [k |-> "nan", sg |-> 0, n |-> 0, d |-> 1]
PosInf == [k |-> "inf", sg |-> 1, n |-> 0, d |-> 1]
NegInf == [k |-> "inf", sg |-> -1, n |-> 0, d |-> 1]
None == [k |-> "none", sg |-> 0, n |-> 0, d |-> 1]
Int2Rat(i) == Rat(i, 1)

\* pd.isna(v) / np.isinf(v) / finite floats
IsNaN(v) == v.k = "nan"
IsInf(v) == v.k = "inf"
IsFinite(v) == v.k \in {"rat", "root", "num"}

----------------------------------------------------------------------------
(* QuantAnalytics / PairAnalysis.  A series is a sequence of points         *)
(* [t |-> timestamp, v |-> value], in index order.                          *)

Point(t, v) == [t |-> t, v |-> v]
Times(s) == {s[i].t : i \in 1..Len(s)}
TimeSeq(s) == [i \in 1..Len(s) |-> s[i].t]
Values(s) == [i \in 1..Len(s) |-> s[i].v]
ValueAt(s, t) == (CHOOSE i \in 1..Len(s) : s[i].t = t)

\* the increasing enumeration of a finite set of integers
RECURSIVE SortedSeq(_)
SortedSeq(S) == IF S = {} THEN <<>>
                ELSE LET m == CHOOSE x \in S : \A y \in S : x <= y
                     IN <<m>> \o SortedSeq(S \ {m})

\* pd.DataFrame({'p1': prices1, 'p2': prices2}): one row per timestamp of either
\* series (the sorted union of the two indexes); a cell is NaN (has = FALSE)
\* where the series has no value at that timestamp
OuterFrame(prices1, prices2) ==
  LET idx == SortedSeq(Times(prices1) \cup Times(prices2))
  IN [i \in 1..Len(idx) |->
        [t |-> idx[i],
         has1 |-> idx[i] \in Times(prices1),
         p1 |-> IF idx[i] \in Times(prices1)
                THEN prices1[ValueAt(prices1, idx[i])].v ELSE 0,
         has2 |-> idx[i] \in Times(prices2),
         p2 |-> IF idx[i] \in Times(prices2)
                THEN prices2[ValueAt(prices2, idx[i])].v ELSE 0]]

\* .dropna(): keep the rows with no NaN cell
DropNaRowsFirstOnly(frame) == SelectSeq(frame, LAMBDA r : r.has1)
DropNaRows(frame) == SelectSeq(frame, LAMBDA r : r.has1 /\ r.has2)

\* lines 171-177 of analyze_pair
AlignFrame(prices1, prices2) == DropNaRows(OuterFrame(prices1, prices2))

\* df_aligned['p1'], df_aligned['p2']
ColumnP1(frame) == [i \in 1..Len(frame) |-> Point(frame[i].t, frame[i].p1)]
ColumnP2(frame) == [i \in 1..Len(frame) |-> Point(frame[i].t, frame[i].p2)]

\* min_required = max(5, window)
MinAligned == 5
MinRequired(window) == Max(MinAligned, window)

\* sums over a sequence of integers
RECURSIVE SumProd(_, _)
SumProd(xs, ys) ==
  IF xs = <<>> THEN 0 ELSE Head(xs) * Head(ys) + SumProd(Tail(xs), Tail(ys))

\* n*Sum(x*y) - Sum(x)*Sum(y): n^2 times the covariance of xs and ys
CovN(xs, ys) == Len(xs) * SumProd(xs, ys) - SeqSum(xs) * SeqSum(ys)

AllSame(xs) == \A i \in 1..Len(xs) : xs[i] = xs[1]

\* scipy.stats.linregress(x, y): raises ValueError when all x are identical;
\* slope = ssxym / ssxm; r = 0 when ssxm or ssym is 0, else ssxym/sqrt(ssxm*ssym)
LinregressRaises(xs, ys) == Len(xs) > 1 /\ AllSame(xs)
LinregressSlope(xs, ys) == Rat(CovN(xs, ys), CovN(xs, xs))
LinregressR2(xs, ys) ==
  IF CovN(xs, xs) = 0 \/ CovN(ys, ys) = 0 THEN Rat(0, 1)
  ELSE Rat(CovN(xs, ys) * CovN(xs, ys), CovN(xs, xs) * CovN(ys, ys))

\* len(aligned_prices1) < 10: no regression
MinOls == 10
HedgeDefault == Rat(1, 1)
R2Default == Rat(0, 1)

\* lines 196-205 of analyze_pair: <<hedge_ratio, r_squared>>
HedgeDefaultsToZero(a1, a2) ==
  IF Len(a1) < MinOls THEN <<Rat(0, 1), R2Default>>
  ELSE <<LinregressSlope(Values(a2), Values(a1)), LinregressR2(Values(a2), Values(a1))>>
Hedge(a1, a2) ==
  IF Len(a1) < MinOls THEN <<HedgeDefault, R2Default>>
  ELSE <<LinregressSlope(Values(a2), Values(a1)), LinregressR2(Values(a2), Values(a1))>>
HedgeRaises(a1, a2) ==
  Len(a1) >= MinOls /\ LinregressRaises(Values(a2), Values(a1))

\* QuantAnalytics.compute_ols_hedge_ratio(prices1, prices2): (0.0, 0.0) when
\* either input or the aligned frame has fewer than 10 rows, else the slope
\* and r^2 of linregress(x = prices2, y = prices1), which may raise
MinOlsPoints == 10
OlsShort == Rat(0, 1)
OlsReturn(kind, hedge_ratio, r_squared) ==
  [kind |-> kind, hedge_ratio |-> hedge_ratio, r_squared |-> r_squared]
compute_ols_hedge_ratio(prices1, prices2) ==
  IF Len(prices1) < MinOlsPoints \/ Len(prices2) < MinOlsPoints
  THEN OlsReturn("value", OlsShort, OlsShort)
  ELSE LET df == DropNaRows(OuterFrame(prices1, prices2))
           x == Values(ColumnP2(df))
           y == Values(ColumnP1(df))
       IN IF Len(df) < MinOlsPoints THEN OlsReturn("value", OlsShort, OlsShort)
          ELSE IF LinregressRaises(x, y) THEN OlsReturn("raised", None, None)
          ELSE OlsReturn("value", LinregressSlope(x, y), LinregressR2(x, y))

\* aligned_prices1 - hedge_ratio * aligned_prices2, as integer numerators over
\* the common denominator hedge.d (the values are numerator / hedge.d)
SpreadNumerators(a1, a2, hedge) ==
  [i \in 1..Len(a1) |-> hedge.d * a1[i].v - hedge.sg * hedge.n * a2[i].v]

\* line 208-209: the spread series (finite prices give no inf/NaN to drop)
Spread(a1, a2, hedge) ==
  LET num == SpreadNumerators(a1, a2, hedge)
  IN [i \in 1..Len(a1) |-> Point(a1[i].t, Rat(num[i], hedge.d))]

\* the numerators divided by their common factor (z-scores and the equality
\* of returns do not depend on a positive scale)
RECURSIVE SeqGCD(_)
SeqGCD(xs) == IF xs = <<>> THEN 0 ELSE GCD(Abs(Head(xs)), SeqGCD(Tail(xs)))
Reduced(xs) ==
  LET g == SeqGCD(xs) IN IF g = 0 THEN xs ELSE [i \in 1..Len(xs) |-> xs[i] \div g]

\* rolling(window).mean()/.std() at position i and the z-score there:
\* NaN before the window is full and where the rolling std is 0 (replaced by
\* NaN); else (x - mean) / std = sign(dev) * sqrt(dev^2 (W-1) / (W VarN))
\* with dev = W x - Sum(window), VarN = W Sum(x^2) - Sum(x)^2
ZScoreAtZeroStdGivesZero(num, i, window) ==
  IF i < window THEN NaN
  ELSE LET w == SubSeq(num, i - window + 1, i)
           varN == CovN(w, w)
           dev == window * num[i] - SeqSum(w)
       IN IF varN = 0 THEN Rat(0, 1)
          ELSE LET g == GCD(dev * dev, varN)
               IN Root(Sign(dev), ((dev * dev) \div g) * (window - 1),
                       window * (varN \div g))
ZScoreAt(num, i, window) ==
  IF i < window THEN NaN
  ELSE LET w == SubSeq(num, i - window + 1, i)
           varN == CovN(w, w)
           dev == window * num[i] - SeqSum(w)
       IN IF varN = 0 THEN NaN
          ELSE LET g == GCD(dev * dev, varN)
               IN Root(Sign(dev), ((dev * dev) \div g) * (window - 1),
                       window * (varN \div g))

\* series.replace([inf, -inf], nan).dropna()
DropNaInf(s) == SelectSeq(s, LAMBDA pt : IsFinite(pt.v))
\* series.dropna()
DropNa(s) == SelectSeq(s, LAMBDA pt : ~IsNaN(pt.v))

\* lines 212-219 of analyze_pair: the rolling z-score of the spread
RollingZScore(spread, num, window) ==
  IF Len(spread) >= window
  THEN DropNaInf([i \in 1..Len(spread) |->
                    Point(spread[i].t, ZScoreAt(Reduced(num), i, window))])
  ELSE <<>>

\* rolling(window).corr(other) at position i: cov / sqrt(var1 * var2), NaN
\* before the window is full and where a variance is 0
CorrAt(xs, ys, i, window) ==
  IF i < window THEN NaN
  ELSE LET wx == SubSeq(xs, i - window + 1, i)
           wy == SubSeq(ys, i - window + 1, i)
           c == CovN(wx, wy)
           vx == CovN(wx, wx)
           vy == CovN(wy, wy)
       IN IF vx = 0 \/ vy = 0 THEN NaN
          ELSE Root(Sign(c), c * c, vx * vy)

\* lines 222-226 of analyze_pair: the rolling correlation of the aligned prices
RollingCorrelation(a1, a2, window) ==
  IF Len(a1) >= window
  THEN DropNa([i \in 1..Len(a1) |->
                 Point(a1[i].t, CorrAt(Values(a1), Values(a2), i, window))])
  ELSE <<>>

\* prices.pct_change().std() is NaN or infinite: fewer than two returns that
\* are not NaN (0/0), or an infinite return (x/0)
ReturnIdx(num) == {i \in 2..Len(num) : ~(num[i - 1] = 0 /\ num[i] = 0)}
VolUndefined(num) ==
  \/ Cardinality(ReturnIdx(num)) < 2
  \/ \E i \in ReturnIdx(num) : num[i - 1] = 0
\* all returns num[i]/num[i-1] - 1 are equal: their std is 0
ReturnsEqual(num) ==
  \A i \in ReturnIdx(num), j \in ReturnIdx(num) :
    num[i] * num[j - 1] = num[j] * num[i - 1]

Volatility(num) ==
  IF VolUndefined(num) \/ ReturnsEqual(num) THEN Rat(0, 1) ELSE Num

StatKeys == {"mean", "std", "min", "max", "last", "volatility"}
EmptyBlock == [key \in {} |-> None]

\* compute_basic_stats(prices), the prices being num[i] / den
compute_basic_stats(num, den) ==
  IF Len(num) < 2 THEN EmptyBlock
  ELSE LET n == Len(num)
       IN [key \in StatKeys |->
            CASE key = "mean" -> Rat(SeqSum(num), n * den)
              [] key = "std" -> Root(1, CovN(num, num), n * (n - 1) * den * den)
              [] key = "min" -> Rat(SeqMin(num), den)
              [] key = "max" -> Rat(SeqMax(num), den)
              [] key = "last" -> Rat(num[n], den)
              [] OTHER -> Volatility(Reduced(num))]

\* what statsmodels' adfuller may report for a series that is not constant:
\* <<statistic, p-value>>, or "raises"
AdfOutcomes ==
  {[raises |-> TRUE, stat |-> NaN, p |-> NaN],
   [raises |-> FALSE, stat |-> Num, p |-> Rat(1, 100)],
   [raises |-> FALSE, stat |-> Num, p |-> Rat(1, 20)],
   [raises |-> FALSE, stat |-> Num, p |-> Rat(1, 2)],
   [raises |-> FALSE, stat |-> NegInf, p |-> Rat(0, 1)],
   [raises |-> FALSE, stat |-> NaN, p |-> NaN]}

\* p < 0.05 (False for NaN)
BelowTenPercent(p) == p.k = "rat" /\ p.sg * p.n * 10 < p.d
BelowFivePercent(p) == p.k = "rat" /\ p.sg * p.n * 20 < p.d

MinAdf == 12
AdfKeys == {"adf_statistic", "p_value", "used_lag", "n_observations",
            "cv_1%", "cv_5%", "cv_10%"}
AdfError == [error |-> TRUE, nums |-> EmptyBlock, is_stationary |-> FALSE]

\* augmented_dickey_fuller_test(series); adfuller raises on a constant series
augmented_dickey_fuller_test(series, adf) ==
  IF Len(series) < MinAdf THEN AdfError
  ELSE IF adf.raises \/ AllSame(Values(series)) THEN AdfError
  ELSE [error |-> FALSE,
        nums |-> [key \in AdfKeys |->
                    CASE key = "adf_statistic" -> adf.stat
                      [] key = "p_value" -> adf.p
                      [] OTHER -> Num],
        is_stationary |-> BelowFivePercent(adf.p)]

\* is_plot_safe(series, min_points)
is_plot_safe_AllowsConstant(series, min_points) ==
  /\ Len(series) >= min_points
  /\ \A i \in 1..Len(series) : ~IsNaN(series[i].v) /\ ~IsInf(series[i].v)
is_plot_safe(series, min_points) ==
  /\ Len(series) >= min_points
  /\ \A i \in 1..Len(series) : ~IsNaN(series[i].v) /\ ~IsInf(series[i].v)
  /\ Cardinality({series[i].v : i \in 1..Len(series)}) > 1

\* analyze_pair.series_to_list_safe(s)
MinPlotPoints == 3
MinListPoints == 2
series_to_list_safe(series) ==
  IF ~is_plot_safe(series, MinPlotPoints) THEN <<>>
  ELSE LET result == SelectSeq(series, LAMBDA pt : ~IsNaN(pt.v) /\ ~IsInf(pt.v))
       IN IF Len(result) < MinListPoints THEN <<>> ELSE result

\* analyze_pair.sanitize_value(v)
sanitize_value_KeepsNaN(v) == v
sanitize_value(v) ==
  IF v.k = "none" THEN None
  ELSE IF IsNaN(v) \/ IsInf(v) THEN None
  ELSE v

\* analyze_pair.sanitize_dict(d)
sanitize_dict(d) == [key \in DOMAIN d |-> sanitize_value(d[key])]
sanitize_adf(blk) ==
  [error |-> blk.error, nums |-> sanitize_dict(blk.nums),
   is_stationary |-> blk.is_stationary]

\* s.iloc[-1] if len(s) > 0 else None
LastOrNone(series) == IF Len(series) > 0 THEN series[Len(series)].v ELSE None

NoStats == [p1 |-> EmptyBlock, p2 |-> EmptyBlock, spread |-> EmptyBlock]
NoSeries == [spread |-> <<>>, zscore |-> <<>>, correlation |-> <<>>]
NoTrace == [aligned1 |-> <<>>, aligned2 |-> <<>>, regressed |-> FALSE,
            spread |-> <<>>, zscore |-> <<>>, correlation |-> <<>>]
Outcome(kind, observed, required) ==
  [kind |-> kind, observed |-> observed, required |-> required,
   hedge_ratio |-> None, r_squared |-> None, current_spread |-> None,
   current_zscore |-> None, current_correlation |-> None,
   stats |-> NoStats, adf_test |-> AdfError, series |-> NoSeries]

\* PairAnalysis.analyze_pair(symbol1, symbol2, prices1, prices2, window):
\* ret is what the caller gets ("insufficient": the error dict; "raised": an
\* exception leaves the function; "result": the analysis dict), trace the
\* intermediate series the function computed
analyze_pair(prices1, prices2, window, adf) ==
  LET df_aligned == AlignFrame(prices1, prices2)
      a1 == ColumnP1(df_aligned)
      a2 == ColumnP2(df_aligned)
      min_required == MinRequired(window)
  IN IF Len(df_aligned) < min_required
     THEN [ret |-> Outcome("insufficient", Len(df_aligned), min_required),
           trace |-> [NoTrace EXCEPT !.aligned1 = a1, !.aligned2 = a2]]
     ELSE IF HedgeRaises(a1, a2)
     THEN [ret |-> Outcome("raised", 0, 0),
           trace |-> [NoTrace EXCEPT !.aligned1 = a1, !.aligned2 = a2,
                                     !.regressed = TRUE]]
     ELSE
       LET hr == Hedge(a1, a2)
           num == SpreadNumerators(a1, a2, hr[1])
           spread == DropNaInf(Spread(a1, a2, hr[1]))
           zscore == RollingZScore(spread, num, window)
           correlation == RollingCorrelation(a1, a2, window)
           stats1 == compute_basic_stats(Values(a1), 1)
           stats2 == compute_basic_stats(Values(a2), 1)
           spread_stats == compute_basic_stats(num, hr[1].d)
           adf_result == augmented_dickey_fuller_test(spread, adf)
       IN [ret |->
             [kind |-> "result", observed |-> 0, required |-> 0,
              hedge_ratio |-> sanitize_value(hr[1]),
              r_squared |-> sanitize_value(hr[2]),
              current_spread |-> sanitize_value(LastOrNone(spread)),
              current_zscore |-> sanitize_value(LastOrNone(zscore)),
              current_correlation |-> sanitize_value(LastOrNone(correlation)),
              stats |-> [p1 |-> sanitize_dict(stats1),
                         p2 |-> sanitize_dict(stats2),
                         spread |-> sanitize_dict(spread_stats)],
              adf_test |-> sanitize_adf(adf_result),
              series |-> [spread |-> series_to_list_safe(spread),
                          zscore |-> series_to_list_safe(zscore),
                          correlation |-> series_to_list_safe(correlation)]],
           trace |-> [aligned1 |-> a1, aligned2 |-> a2,
                      regressed |-> Len(a1) >= MinOls,
                      spread |-> spread, zscore |-> zscore,
                      correlation |-> correlation]]

----------------------------------------------------------------------------
(* GET /api/stats/{symbol} of main.py, over the tables of the store *)

\* get_ohlcv's default limit
OhlcvLimit == 1000

CloseSeq(bars) == [i \in 1..Len(bars) |-> bars[i].close]

BadRequest == [kind |-> "bad_request", bars |-> NoBars, block |-> EmptyBlock]
NotFound == [kind |-> "not_found", bars |-> NoBars, block |-> EmptyBlock]
StatsReply(block) == [kind |-> "stats", bars |-> NoBars, block |-> block]

\* get_symbol_stats(symbol, timeframe): the reply of the endpoint
get_symbol_stats(tables, sym, tf) ==
  IF tf \notin DOMAIN TIMEFRAMES THEN BadRequest
  ELSE LET df == get_ohlcv(tables, sym, tf, OhlcvLimit)
       IN IF df = <<>> THEN NotFound
          ELSE StatsReply(compute_basic_stats(CloseSeq(df), 1))

ApiTimeframes == TimeframeNames \cup {"2h"}

ApiStats(sym, tf) ==
  /\ last' = Call("stats", sym, tf, "-", get_symbol_stats(resampled_data, sym, tf))
  /\ UNCHANGED <<tick_buffer, key_order, resampled_data, db, added, snapshot, nops>>
  /\ UNCHANGED <<pairVars, connVars, loopVars>>

ApiNext ==
  \/ \E sym \in StoreSymbols, tick \in Ticks : StoreAdd(sym, tick)
  \/ \E sym \in StoreSymbols, tf \in TimeframeNames : StoreResample(sym, tf)
  \/ \E sym \in Symbols, tf \in ApiTimeframes : ApiStats(sym, tf)

----------------------------------------------------------------------------
(* The pair analysis applied to close-price series as the OHLCV tables hold *)
(* them: strictly increasing bar times, finite prices.                      *)

Shapes == {"flat", "zig", "step"}
ShapePrice(shape, t) ==
  CASE shape = "flat" -> 2
    [] shape = "zig" -> 1 + (t % 2)
    [] OTHER -> IF t < 6 THEN 1 ELSE 3

\* the bars lo..hi of a shape, without the bars at the times in gaps
MakeSeries(shape, lo, hi, gaps) ==
  LET idx == SortedSeq((lo..hi) \ gaps)
  IN [i \in 1..Len(idx) |-> Point(idx[i], ShapePrice(shape, idx[i]))]

Pending == [ret |-> Outcome("pending", 0, 0), trace |-> NoTrace]
OlsPending == OlsReturn("pending", None, None)

PairIdle ==
  /\ in_prices1 = <<>>
  /\ in_prices2 = <<>>
  /\ in_window = 1
  /\ adf_outcome = CHOOSE o \in AdfOutcomes : o.raises
  /\ analysis = Pending
  /\ ols = OlsPending

PairInit ==
  \E n \in 0..MaxLen, o1 \in {0, 1}, e2 \in {0, 1}, g1 \in {{}, {2}}, g2 \in {{}, {3}},
     sh1 \in Shapes, sh2 \in Shapes, w \in 1..MaxWindow :
    /\ in_prices1 = MakeSeries(sh1, o1, n - 1, g1)
    /\ in_prices2 = MakeSeries(sh2, 0, n - 1 - e2, g2)
    /\ in_window = w
    /\ adf_outcome \in (IF n >= MinAdf THEN AdfOutcomes ELSE {o \in AdfOutcomes : o.raises})
    /\ analysis = Pending
    /\ ols = OlsPending

Analyze ==
  /\ analysis.ret.kind = "pending"
  /\ analysis' = analyze_pair(in_prices1, in_prices2, in_window, adf_outcome)
  /\ UNCHANGED <<in_prices1, in_prices2, in_window, adf_outcome, ols>>
  /\ UNCHANGED <<storeVars, connVars, loopVars>>

PairNext == Analyze

\* the standalone estimator applied to the same two series
EstimateHedge ==
  /\ ols.kind = "pending"
  /\ ols' = compute_ols_hedge_ratio(in_prices1, in_prices2)
  /\ UNCHANGED <<in_prices1, in_prices2, in_window, adf_outcome, analysis>>
  /\ UNCHANGED <<storeVars, connVars, loopVars>>

HedgeNext ==
  \/ Analyze
  \/ EstimateHedge

----------------------------------------------------------------------------
(* MarketDataIngestion: one connect_symbol loop per symbol *)

MaxAttempts == 2
MaxDelivered == 1

\* what the stream hands to one iteration of "async for message in ws"
Messages == {"trade", "other", "badtrade", "garbage"}
StreamEvents == Messages \cup {"end", "closed"}
ConnectOutcomes == {"ok", "closed", "error"}
SinkOutcomes == {"ok", "error"}

\* json.loads raises on text that is not JSON
JsonLoadsRaises(message) == message = "garbage"
\* data.get('e') == 'trade'
IsTrade(message) == message \in {"trade", "badtrade"}
\* _normalize_tick raises on a trade event lacking or garbling s, T, p or q
NormalizeRaises(message) == message = "badtrade"

\* both except branches log and sleep 2 seconds inside the while loop
AfterFailureExits == "done"
AfterFailure == "sleep"

\* an exception leaves "async with", which closes the connection
Fail(sym, what) ==
  /\ pc' = [pc EXCEPT ![sym] = AfterFailure]
  /\ failure' = [failure EXCEPT ![sym] = what]
  /\ ws_open' = [ws_open EXCEPT ![sym] = FALSE]

NotClosing == [todo |-> <<>>, stale |-> FALSE, used |-> 0]

ConnIdle ==
  /\ running = FALSE
  /\ phase = "new"
  /\ pc = [sym \in Symbols |-> "idle"]
  /\ websockets = {}
  /\ ws_order = <<>>
  /\ closing = NotClosing
  /\ ws_open = [sym \in Symbols |-> FALSE]
  /\ failure = [sym \in Symbols |-> "none"]
  /\ attempts = [sym \in Symbols |-> 0]
  /\ delivered = [sym \in Symbols |-> 0]
  /\ dropped = [sym \in Symbols |-> FALSE]
  /\ received = [sym \in Symbols |-> <<>>]

\* start(): set running and gather one connect_symbol per symbol
start ==
  /\ phase = "new"
  /\ running' = TRUE
  /\ phase' = "started"
  /\ pc' = [sym \in Symbols |-> "while"]
  /\ UNCHANGED <<websockets, ws_order, closing, ws_open, failure, attempts, delivered, dropped,
               received>>
  /\ UNCHANGED <<storeVars, pairVars, loopVars>>

\* stop() up to its first suspension: clear running and start closing the
\* first stored connection; with no connection stored it returns at once
stop ==
  /\ phase = "started"
  /\ running' = FALSE
  /\ IF ws_order = <<>>
     THEN phase' = "stopped" /\ closing' = NotClosing
     ELSE /\ phase' = "closing"
          /\ closing' = [todo |-> ws_order, stale |-> FALSE, used |-> Len(ws_order)]
  /\ UNCHANGED <<pc, websockets, ws_order, ws_open, failure, attempts, delivered, dropped,
               received>>
  /\ UNCHANGED <<storeVars, pairVars, loopVars>>

\* "await ws.close()" returns and the for loop of stop() asks for its next
\* value: the connection it was given is closed (the stored one, unless the
\* symbol's loop has replaced it since); the dict iterator raises RuntimeError
\* if the dict gained a key since the iteration began; stop() returns after
\* the last value
CloseStored(open, sym, stale) == IF stale THEN open ELSE [open EXCEPT ![sym] = FALSE]
StopClose ==
  /\ phase = "closing"
  /\ ws_open' = CloseStored(ws_open, Head(closing.todo), closing.stale)
  /\ IF Len(ws_order) # closing.used
     THEN phase' = "stop_raised" /\ closing' = NotClosing
     ELSE IF Tail(closing.todo) = <<>>
     THEN phase' = "stopped" /\ closing' = NotClosing
     ELSE /\ phase' = "closing"
          /\ closing' = [closing EXCEPT !.todo = Tail(@), !.stale = FALSE]
  /\ UNCHANGED <<running, pc, websockets, ws_order, failure, attempts, delivered, dropped,
               received>>
  /\ UNCHANGED <<storeVars, pairVars, loopVars>>

\* "while self.running"
WhileRunning(sym) ==
  /\ pc[sym] = "while"
  /\ pc' = [pc EXCEPT ![sym] = IF running THEN "connect" ELSE "done"]
  /\ UNCHANGED <<running, phase, websockets, ws_order, closing, ws_open, failure, attempts,
               delivered, dropped, received>>
  /\ UNCHANGED <<storeVars, pairVars, loopVars>>

\* "async with websockets.connect(url) as ws"
Connect(sym, outcome) ==
  /\ pc[sym] = "connect"
  /\ attempts' = [attempts EXCEPT ![sym] = Min(@ + 1, MaxAttempts)]
  /\ IF outcome = "ok"
     THEN /\ websockets' = websockets \cup {sym}
          /\ ws_order' = IF sym \in websockets THEN ws_order ELSE Append(ws_order, sym)
          /\ closing' = IF phase = "closing" /\ Head(closing.todo) = sym
                        THEN [closing EXCEPT !.stale = TRUE] ELSE closing
          /\ ws_open' = [ws_open EXCEPT ![sym] = TRUE]
          /\ pc' = [pc EXCEPT ![sym] = "read"]
          /\ failure' = [failure EXCEPT ![sym] = "none"]
     ELSE /\ pc' = [pc EXCEPT ![sym] = AfterFailure]
          /\ failure' = [failure EXCEPT ![sym] = "connect"]
          /\ UNCHANGED <<websockets, ws_order, closing, ws_open>>
  /\ UNCHANGED <<running, phase, delivered, dropped, received>>
  /\ UNCHANGED <<storeVars, pairVars, loopVars>>

\* "if not self.running: break" on a received message
BreakWhenStoppedIgnored(message) == FALSE
BreakWhenStopped(message) == ~running

\* one iteration of "async for message in ws", up to the await of the sink
\* (a closed connection yields no further message)
ReadStep(sym, event) ==
  /\ pc[sym] = "read"
  /\ IF ~ws_open[sym] THEN event \in {"end", "closed"} ELSE TRUE
  /\ CASE event = "end" ->
            /\ pc' = [pc EXCEPT ![sym] = "while"]
            /\ ws_open' = [ws_open EXCEPT ![sym] = FALSE]
            /\ UNCHANGED <<failure, dropped>>
       [] event = "closed" -> Fail(sym, "closed") /\ UNCHANGED dropped
       [] event \in Messages /\ BreakWhenStopped(event) ->
            /\ pc' = [pc EXCEPT ![sym] = "while"]
            /\ ws_open' = [ws_open EXCEPT ![sym] = FALSE]
            /\ dropped' = [dropped EXCEPT ![sym] = TRUE]
            /\ UNCHANGED failure
       [] event \in Messages /\ ~BreakWhenStopped(event) ->
            /\ UNCHANGED dropped
            /\ IF JsonLoadsRaises(event) THEN Fail(sym, "message")
               ELSE IF ~IsTrade(event) THEN UNCHANGED <<pc, ws_open, failure>>
               ELSE IF NormalizeRaises(event) THEN Fail(sym, "message")
               ELSE /\ pc' = [pc EXCEPT ![sym] = "sink"]
                    /\ UNCHANGED <<ws_open, failure>>
  /\ UNCHANGED <<running, phase, websockets, ws_order, closing, attempts, delivered>>

\* the connector on its own: the tick goes to whatever sink it was given
Read(sym, event) ==
  /\ ReadStep(sym, event)
  /\ UNCHANGED received
  /\ UNCHANGED <<storeVars, pairVars, loopVars>>

\* "await self.on_tick_callback(tick)" returns or raises
Sink(sym, outcome) ==
  /\ pc[sym] = "sink"
  /\ IF outcome = "ok"
     THEN /\ pc' = [pc EXCEPT ![sym] = "read"]
          /\ delivered' = [delivered EXCEPT ![sym] = Min(@ + 1, MaxDelivered)]
          /\ UNCHANGED <<ws_open, failure>>
     ELSE /\ Fail(sym, "sink")
          /\ UNCHANGED delivered
  /\ UNCHANGED <<running, phase, websockets, ws_order, closing, attempts, dropped, received>>
  /\ UNCHANGED <<storeVars, pairVars, loopVars>>

\* "await asyncio.sleep(2)" returns to the loop condition
Sleep(sym) ==
  /\ pc[sym] = "sleep"
  /\ pc' = [pc EXCEPT ![sym] = "while"]
  /\ UNCHANGED <<running, phase, websockets, ws_order, closing, ws_open, failure, attempts,
               delivered, dropped, received>>
  /\ UNCHANGED <<storeVars, pairVars, loopVars>>

ConnNext ==
  \/ start
  \/ stop
  \/ StopClose
  \/ \E sym \in Symbols : WhileRunning(sym)
  \/ \E sym \in Symbols, outcome \in ConnectOutcomes : Connect(sym, outcome)
  \/ \E sym \in Symbols, event \in StreamEvents : Read(sym, event)
  \/ \E sym \in Symbols, outcome \in SinkOutcomes : Sink(sym, outcome)
  \/ \E sym \in Symbols : Sleep(sym)

\* reading from a connection that is closed ends at once
ReadClosed(sym) == ~ws_open[sym] /\ \E event \in {"end", "closed"} : Read(sym, event)

\* the event loop resumes a coroutine that is ready: the sleep ends, the loop
\* condition is evaluated, a connect attempt succeeds or raises, the sink
\* returns or raises, a read from a closed connection ends, a close that
\* stop() awaits completes (the closing handshake has a timeout).  When an
\* open connection yields its next message is up to the feed.
\* (A coroutine is at one place at a time, so at most one of these steps is
\* enabled for a symbol.)
ReadyStep(sym) ==
  \/ Sleep(sym)
  \/ WhileRunning(sym)
  \/ \E outcome \in ConnectOutcomes : Connect(sym, outcome)
  \/ \E outcome \in SinkOutcomes : Sink(sym, outcome)
  \/ ReadClosed(sym)

ConnFairness ==
  /\ WF_vars(StopClose)
  /\ \A sym \in Symbols : WF_vars(ReadyStep(sym))

----------------------------------------------------------------------------
(* resampling_loop of main.py: once a second, resample every known symbol   *)
(* in every configured timeframe.  Nothing inside a pass suspends (SQLite   *)
(* is called synchronously), so ticks arrive only while the loop sleeps.    *)
(* A pass is written as one step per resample_to_ohlcv call; no step of any *)
(* other coroutine is enabled until the pass has ended.                     *)

\* the longest run of ticks and resamples explored
MaxLoop == 5

\* config.TIMEFRAMES in the order its items() are iterated
TimeframeOrder == <<"1s", "1m", "5m">>

\* "for symbol in symbols: for timeframe, seconds in TIMEFRAMES.items()"
PassPairs(order) ==
  [k \in 1..(Len(order) * Len(TimeframeOrder)) |->
     <<order[((k - 1) \div Len(TimeframeOrder)) + 1],
       TimeframeOrder[((k - 1) % Len(TimeframeOrder)) + 1]>>]

LoopIdle ==
  /\ loop_pc = "sleep"
  /\ pass_todo = <<>>
  /\ pass_pairs = {}
  /\ pass_done = {}

\* on_tick_received stores a tick while the loop sleeps
LoopTicks == {tick \in Ticks : tick.quantity = 1 /\ tick.price = 1}
LoopAdd(sym, tick) ==
  /\ nops < MaxLoop
  /\ loop_pc = "sleep"
  /\ add_tick(sym, tick)
  /\ nops' = nops + 1
  /\ UNCHANGED <<added, loop_pc, pass_todo, pass_pairs, pass_done>>
  /\ UNCHANGED <<pairVars, connVars>>

\* "await asyncio.sleep(1)" returns and "symbols = get_all_symbols()": a pass
\* begins (with no symbol known it has no pair and ends at once)
PassBegin ==
  /\ loop_pc = "sleep"
  /\ get_all_symbols(tick_buffer) # {}
  /\ loop_pc' = "pass"
  /\ pass_todo' = PassPairs(key_order)
  /\ pass_pairs' = get_all_symbols(tick_buffer) \X TimeframeNames
  /\ pass_done' = {}
  /\ UNCHANGED storeVars
  /\ UNCHANGED <<pairVars, connVars>>

LoopWake == nops < MaxLoop /\ PassBegin

\* an exception anywhere in the pass is caught by the except clause of the
\* loop body, outside both for loops: it is logged and the next iteration of
\* "while True" begins
ExceptEndsPass(todo) == <<>>

\* one "await data_storage.resample_to_ohlcv(symbol, timeframe, seconds)" of the pass
LoopResample(fail, bad) ==
  /\ loop_pc = "pass"
  /\ pass_todo # <<>>
  /\ LET sym == pass_todo[1][1]
         tf == pass_todo[1][2]
     IN /\ resample_to_ohlcv(sym, tf, TIMEFRAMES[tf], fail, bad)
        /\ pass_done' = pass_done \cup {<<sym, tf>>}
  /\ pass_todo' = IF last'.ret = RetRaised THEN ExceptEndsPass(pass_todo)
                  ELSE Tail(pass_todo)
  /\ loop_pc' = IF pass_todo' = <<>> THEN "sleep" ELSE "pass"
  /\ nops' = nops + 1
  /\ UNCHANGED <<added, pass_pairs>>
  /\ UNCHANGED <<pairVars, connVars>>

LoopNext ==
  \/ \E sym \in Symbols, tick \in LoopTicks : LoopAdd(sym, tick)
  \/ LoopWake
  \/ \E fail \in Fails, bad \in SUBSET TimeStamps : LoopResample(fail, bad)

----------------------------------------------------------------------------
(* The connector wired to the store as main.py wires it: the sink is        *)
(* on_tick_received, which calls add_tick before its first suspension and   *)
(* then broadcasts; resampling_loop runs its passes meanwhile, each pass     *)
(* without interruption: no coroutine of the connector runs inside a pass.  *)
(* The connector is started and keeps running; its shutdown is SpecConn's.  *)

MaxFeed == 4
FeedTicks == {tick \in Ticks : tick.timestamp = 0 /\ tick.quantity = 1}
FeedEvents == {"trade", "closed"}

\* one iteration of the read loop; a trade message enters on_tick_received,
\* whose add_tick runs before the loop can be suspended
FeedRead(sym, event, tick) ==
  /\ nops < MaxFeed
  /\ loop_pc = "sleep"
  /\ ReadStep(sym, event)
  /\ IF pc'[sym] = "sink"
     THEN /\ received' = [received EXCEPT ![sym] = Append(@, tick)]
          /\ add_tick(sym, tick)
          /\ added' = [added EXCEPT ![sym] = Append(@, tick)]
          /\ nops' = nops + 1
     ELSE UNCHANGED <<received, storeVars>>
  /\ UNCHANGED <<pairVars, loopVars>>

\* a step of the connector, taken while resampling_loop sleeps
FeedStart == loop_pc = "sleep" /\ start
FeedWhileRunning(sym) == loop_pc = "sleep" /\ WhileRunning(sym)
FeedConnect(sym) == loop_pc = "sleep" /\ Connect(sym, "ok")
FeedSink(sym) == loop_pc = "sleep" /\ Sink(sym, "ok")
FeedSleep(sym) == loop_pc = "sleep" /\ Sleep(sym)

\* resampling_loop wakes up and begins a pass over every known symbol
FeedWake == nops < MaxFeed /\ PassBegin

\* the next resample_to_ohlcv call of the running pass
FeedResample == LoopResample("none", {})

FeedNext ==
  \/ FeedStart
  \/ \E sym \in Symbols : FeedWhileRunning(sym)
  \/ \E sym \in Symbols : FeedConnect(sym)
  \/ \E sym \in Symbols, event \in FeedEvents, tick \in FeedTicks : FeedRead(sym, event, tick)
  \/ \E sym \in Symbols : FeedSink(sym)
  \/ \E sym \in Symbols : FeedSleep(sym)
  \/ FeedWake
  \/ FeedResample

----------------------------------------------------------------------------
(* Specifications *)

\* nothing analysed, the connector not started
InitStore == StoreInit /\ PairIdle /\ ConnIdle /\ LoopIdle
InitPair == StoreInit /\ PairInit /\ ConnIdle /\ LoopIdle

\* the tick buffer alone
SpecBuffer == InitStore /\ [][BufferNext]_vars

\* the tick buffer and the resampler
SpecStore == InitStore /\ [][StoreNext]_vars

\* the tick buffer and the resampler over a store that may fail
SpecStoreFail == InitStore /\ [][StoreFailNext]_vars

\* the statistics endpoint over the tables the resampler builds
SpecApi == InitStore /\ [][ApiNext]_vars

\* analyze_pair on every pair of input series
SpecPair == InitPair /\ [][PairNext]_vars

\* analyze_pair and compute_ols_hedge_ratio on every pair of input series
SpecHedge == InitPair /\ [][HedgeNext]_vars

\* the connector, its loops scheduled fairly
SpecConn == InitStore /\ [][ConnNext]_vars /\ ConnFairness

\* the connector feeding the store while the resampler runs
SpecFeed == InitStore /\ [][FeedNext]_vars

\* resampling_loop over a store that may fail, ticks arriving between passes
SpecLoop == InitStore /\ [][LoopNext]_vars

----------------------------------------------------------------------------
(* Claims about DataStorage *)

Keys(f) == DOMAIN f
TableOf(sym, tf) ==
  IF <<sym, tf>> \in DOMAIN resampled_data THEN resampled_data[<<sym, tf>>] ELSE <<>>
BarTimes(bars) == {bars[i].timestamp : i \in 1..Len(bars)}
BucketsOf(ticks, seconds) ==
  {BucketStart(ticks[i].timestamp, seconds) : i \in 1..Len(ticks)}

\* C1: a symbol's buffer never holds more than Capacity ticks, and it is always
\* the last Capacity ticks added for that symbol, in the order they were added
\* (all of them while no more than Capacity were added).
C1_BufferIsLastCapacity ==
  \A sym \in Symbols :
    /\ Len(BufferOf(tick_buffer, sym)) <= Capacity
    /\ BufferOf(tick_buffer, sym) = LastN(added[sym], Capacity)

C1_Witness ==
  \E sym \in Symbols :
    /\ Len(added[sym]) > Capacity
    /\ Len(BufferOf(tick_buffer, sym)) = Capacity
    /\ added[sym][1] # added[sym][Len(added[sym])]

\* C17 (as claimed): get_recent_ticks(symbol, limit), limit >= 0, returns
\* exactly the last min(limit, size) ticks of the symbol's buffer, oldest first,
\* hence never more than limit ticks, and an empty sequence for a symbol that
\* never received a tick.
C17_RecentIsLastLimit ==
  last.op = "recent" =>
    LET ticks == BufferOf(tick_buffer, last.sym)
        n == Min(last.limit, Len(ticks))
    IN /\ last.ret.kind = "ticks"
       /\ last.ret.bars = SubSeq(ticks, Len(ticks) - n + 1, Len(ticks))
       /\ Len(last.ret.bars) <= last.limit
       /\ added[last.sym] = <<>> => last.ret.bars = <<>>

\* C18 (as claimed): get_all_symbols() returns exactly the symbols for which
\* add_tick was called at least once.
C18_SymbolsAreFedSymbols ==
  get_all_symbols(tick_buffer) = {sym \in Symbols : added[sym] # <<>>}

\* the bar the claim C2 expects for bucket b: aggregated over every tick of the
\* buffer that falls in the bucket
BarMatches(bar, ticks, b, seconds) ==
  LET sel == TicksIn(ticks, b, seconds)
  IN /\ bar.timestamp = b
     /\ bar.open = sel[1].price
     /\ bar.close = sel[Len(sel)].price
     /\ bar.high = SeqMax(PriceSeq(sel))
     /\ bar.low = SeqMin(PriceSeq(sel))
     /\ bar.volume = SeqSum(QuantitySeq(sel))

BarsCover(bars, ticks, seconds) ==
  \A b \in BucketsOf(ticks, seconds) :
    \E i \in 1..Len(bars) : BarMatches(bars[i], ticks, b, seconds)

\* C2 (as claimed): after resample returns bars, every bucket holding a tick of
\* the symbol's buffer (all the buffer's ticks) has a bar in the table with
\* open/close = first/last price, high/low = extrema and volume = quantity sum
\* of the buffer's ticks of that bucket.
C2_BarsCoverWholeBuffer ==
  (last.op = "resample" /\ last.ret.kind = "bars") =>
    BarsCover(TableOf(last.sym, last.tf), BufferOf(tick_buffer, last.sym),
              TIMEFRAMES[last.tf])

\* C3: a resample call that directly follows the same resample call (same
\* symbol and timeframe, no add in between) returns the same bars and leaves
\* the in-memory tables and the durable rows as the first call left them.
C3_ResampleIdempotent ==
  [][(/\ last.op = "resample"
      /\ last'.op = "resample"
      /\ last'.again
      /\ last.fail = "none" /\ last'.fail = "none")
     => (/\ last'.ret = last.ret
         /\ resampled_data' = resampled_data
         /\ db' = db)]_vars

C3_Witness ==
  /\ last.op = "resample"
  /\ last.again
  /\ last.ret.kind = "bars"
  /\ Len(last.ret.bars) >= 2
  /\ db # {}

StrictlyIncreasing(bars) ==
  \A i \in 1..Len(bars), j \in 1..Len(bars) :
    i < j => bars[i].timestamp < bars[j].timestamp

\* C4: every table has strictly increasing (hence unique) bar timestamps, and
\* they are exactly the starts of the buckets that hold a tick of the snapshot
\* read by the latest resample of that pair: no bar for an empty bucket, none
\* kept from an earlier pass.
C4_TableIsLatestSnapshot ==
  /\ DOMAIN resampled_data = DOMAIN snapshot
  /\ \A k \in DOMAIN resampled_data :
       /\ StrictlyIncreasing(resampled_data[k])
       /\ \A i \in 1..Len(resampled_data[k]) : ~resampled_data[k][i].nan
       /\ BarTimes(resampled_data[k]) = BucketsOf(snapshot[k].ticks, TIMEFRAMES[k[2]])

\* a table whose latest pass skipped an empty bucket and dropped a bucket
\* that an earlier pass of the same pair had produced
C4_Witness ==
  /\ last.op = "resample"
  /\ last.tf = "1s"
  /\ <<last.sym, "1s">> \in DOMAIN snapshot
  /\ snapshot[<<last.sym, "1s">>].replaced = {0, 60}
  /\ BarTimes(TableOf(last.sym, "1s")) = {60}

\* C14 (as claimed): a resample whose durable write fails (opening the store,
\* writing a row, or committing) still returns the computed bars without
\* raising, and the pair's in-memory table holds exactly those bars.
C14_PersistFailureDoesNotAbort ==
  (last.op = "resample" /\ last.fail # "none") =>
    /\ last.ret.kind = "bars"
    /\ last.ret.bars = TableOf(last.sym, last.tf)
    /\ TableOf(last.sym, last.tf)
         = ComputeOhlcv(snapshot[<<last.sym, last.tf>>].ticks, TIMEFRAMES[last.tf])

\* C15: with a store that does not fail, the database holds at most one row
\* per key (symbol, timeframe, timestamp), and each of the last TailRows bars
\* of every table has its row, with the bar's open/high/low/close/volume.
C15_DurableTailMirrorsTable ==
  /\ \A r1 \in db, r2 \in db : SameKey(r1, r2) => r1 = r2
  /\ \A k \in DOMAIN resampled_data :
       LET tail == LastN(resampled_data[k], TailRows)
       IN \A i \in 1..Len(tail) : DbRow(k[1], k[2], tail[i]) \in db

\* a bucket of the "1m" table resampled a second time, other calls in between:
\* its key has one row, with the volume of the bar now in memory
C15_Witness ==
  /\ last.op = "resample" /\ last.again = FALSE
  /\ <<last.sym, "1m">> \in DOMAIN snapshot
  /\ last.tf = "1m"
  /\ snapshot[<<last.sym, "1m">>].replaced = {0}
  /\ Len(snapshot[<<last.sym, "1m">>].ticks) = 2
  /\ \E r \in db : r.timeframe = "1m" /\ r.timestamp = 0 /\ r.volume = 4
  /\ Cardinality({r \in db : r.timeframe = "1m"}) = 1

\* C16: a resample of a symbol whose buffer holds fewer than 2 ticks returns
\* "no result", leaves every in-memory table and the database as they were,
\* and get_ohlcv then returns an empty frame for that symbol.
C16_TooFewTicksNoResult ==
  [][(nops' # nops /\ last'.op = "resample"
        /\ Len(BufferOf(tick_buffer, last'.sym)) < 2) =>
       /\ last'.ret = RetNone
       /\ resampled_data' = resampled_data
       /\ db' = db
       /\ \A tf \in TimeframeNames, limit \in 1..2 :
            get_ohlcv(resampled_data', last'.sym, tf, limit) = <<>>]_vars

\* a resample of a symbol with exactly one buffered tick returned "no result"
C16_Witness ==
  /\ last.op = "resample"
  /\ Len(BufferOf(tick_buffer, last.sym)) = 1
  /\ last.ret = RetNone
  /\ resampled_data = <<>>
  /\ db = {}

\* C19 (as claimed): for a valid timeframe, whatever the state of the table
\* (none, one bar, several bars), get_symbol_stats replies NotFound or a block
\* holding all of mean, std, min, max, last and volatility.
C19_StatsFullOrNotFound ==
  (last.op = "stats" /\ last.tf \in TimeframeNames) =>
    \/ last.ret.kind = "not_found"
    \/ last.ret.kind = "stats" /\ DOMAIN last.ret.block = StatKeys

----------------------------------------------------------------------------
(* Claims about analyze_pair *)

Returned == analysis.ret.kind # "pending"
FullResult == analysis.ret.kind = "result"
SeriesKeys == {"spread", "zscore", "correlation"}
NoNaNInf(series) ==
  \A i \in 1..Len(series) : series[i].v.k \notin {"nan", "inf", "none"}
Distinct(series) == Cardinality({series[i].v : i \in 1..Len(series)})

\* C5: each of the series spread, zscore, correlation of a result is emitted
\* (as computed) exactly when the computed series has at least 3 points, no
\* NaN/infinite value and more than one distinct value, and is emitted empty
\* otherwise; so an emitted series is empty or has >= 2 points, no NaN/infinite
\* value and >= 2 distinct values.
C5_SeriesGated ==
  FullResult =>
    \A key \in SeriesKeys :
      LET computed == analysis.trace[key]
          emitted == analysis.ret.series[key]
      IN /\ (emitted # <<>>) =
              (Len(computed) >= 3 /\ NoNaNInf(computed) /\ Distinct(computed) > 1)
         /\ emitted # <<>> =>
              /\ emitted = computed
              /\ Len(emitted) >= 2 /\ NoNaNInf(emitted) /\ Distinct(emitted) >= 2

\* one series emitted while a constant series of >= 3 points is withheld
C5_Witness ==
  /\ FullResult
  /\ \E key \in SeriesKeys : Len(analysis.ret.series[key]) >= 3
  /\ \E key \in SeriesKeys :
       /\ Len(analysis.trace[key]) >= 3
       /\ Distinct(analysis.trace[key]) = 1
       /\ analysis.ret.series[key] = <<>>

FiniteOrMissing(v) == v.k \in {"rat", "root", "num", "none"}
BlockSafe(blk) == \A key \in DOMAIN blk : FiniteOrMissing(blk[key])

\* C6: every scalar numeric field of a result (the five top-level scalars,
\* every value of the three statistics blocks and of the stationarity block,
\* critical values included) is a finite number or None, never NaN or infinite.
C6_ScalarsFiniteOrMissing ==
  FullResult =>
    /\ FiniteOrMissing(analysis.ret.hedge_ratio)
    /\ FiniteOrMissing(analysis.ret.r_squared)
    /\ FiniteOrMissing(analysis.ret.current_spread)
    /\ FiniteOrMissing(analysis.ret.current_zscore)
    /\ FiniteOrMissing(analysis.ret.current_correlation)
    /\ BlockSafe(analysis.ret.stats.p1)
    /\ BlockSafe(analysis.ret.stats.p2)
    /\ BlockSafe(analysis.ret.stats.spread)
    /\ BlockSafe(analysis.ret.adf_test.nums)

\* the stationarity test reported NaN and the result carries None in its place
C6_Witness ==
  /\ FullResult
  /\ ~analysis.ret.adf_test.error
  /\ IsNaN(adf_outcome.stat)
  /\ analysis.ret.adf_test.nums["adf_statistic"] = None
  /\ analysis.ret.adf_test.nums["cv_5%"] = Num
  /\ analysis.ret.stats.spread # EmptyBlock
  /\ analysis.ret.current_zscore = None

\* the timestamps at which both inputs have a value
CommonTimes == Times(in_prices1) \cap Times(in_prices2)
NAligned == Cardinality(CommonTimes)

\* C7 (as claimed): for every window >= 1, analyze_pair returns the
\* insufficient-data result, carrying the aligned count and max(5, window),
\* exactly when the aligned count is below max(5, window); otherwise it returns a
\* full result.
C7_InsufficientExactlyBelowMinimum ==
  Returned =>
    IF NAligned < Max(5, in_window)
    THEN /\ analysis.ret.kind = "insufficient"
         /\ analysis.ret.observed = NAligned
         /\ analysis.ret.required = Max(5, in_window)
    ELSE analysis.ret.kind = "result"

InputValue(series, t) == series[ValueAt(series, t)].v

\* C8: the aligned pair has the same length and the same timestamp index on
\* both sides, holds exactly the timestamps (with the prices) at which both
\* inputs have a value, and its timestamps are strictly increasing.
C8_AlignedPair ==
  Returned =>
    LET a1 == analysis.trace.aligned1
        a2 == analysis.trace.aligned2
    IN /\ Len(a1) = Len(a2)
       /\ TimeSeq(a1) = TimeSeq(a2)
       /\ Times(a1) = CommonTimes
       /\ \A i \in 1..Len(a1), j \in 1..Len(a1) : i < j => a1[i].t < a1[j].t
       /\ \A i \in 1..Len(a1) :
            /\ a1[i].v = InputValue(in_prices1, a1[i].t)
            /\ a2[i].v = InputValue(in_prices2, a2[i].t)

\* each input has a timestamp the other lacks, at either end and inside
C8_Witness ==
  /\ FullResult
  /\ Len(analysis.trace.aligned1) >= 5
  /\ Times(in_prices1) \ Times(in_prices2) # {}
  /\ Times(in_prices2) \ Times(in_prices1) # {}
  /\ \E t \in CommonTimes : t + 1 \notin CommonTimes /\ t + 2 \in CommonTimes

\* C9: with 5..9 aligned points (and a window that admits them) analyze_pair
\* runs no regression and returns a full result with hedge_ratio 1.0,
\* r_squared 0.0 and spread price1 - price2; with 10 or more aligned points
\* (and a window that admits them) the regression of price1 on price2 is run
\* and a result carries its slope as hedge_ratio.
C9_DegenerateHedge ==
  Returned =>
    LET a1 == analysis.trace.aligned1
        a2 == analysis.trace.aligned2
        h == analysis.ret.hedge_ratio
    IN /\ (Len(a1) \in 5..9 /\ Len(a1) >= Max(5, in_window)) =>
            /\ FullResult
            /\ ~analysis.trace.regressed
            /\ h = Rat(1, 1)
            /\ analysis.ret.r_squared = Rat(0, 1)
            /\ Len(analysis.trace.spread) = Len(a1)
            /\ \A i \in 1..Len(a1) :
                 analysis.trace.spread[i] = Point(a1[i].t, Rat(a1[i].v - a2[i].v, 1))
       /\ (Len(a1) >= 10 /\ Len(a1) >= Max(5, in_window)) =>
            /\ analysis.trace.regressed
            /\ FullResult =>
                 /\ h.k = "rat"
                 /\ h.sg * h.n * CovN(Values(a2), Values(a2))
                      = h.d * CovN(Values(a2), Values(a1))

C9_Witness ==
  /\ FullResult
  /\ Len(analysis.trace.aligned1) \in 5..9
  /\ analysis.ret.hedge_ratio = Rat(1, 1)
  /\ Distinct(analysis.trace.spread) > 1
  /\ analysis.ret.series.spread # <<>>

\* the result analyze_pair gives on the same inputs when the stationarity
\* test runs and reports a finite statistic and p-value 0.5
ReferenceResult ==
  analyze_pair(in_prices1, in_prices2, in_window,
               [raises |-> FALSE, stat |-> Num, p |-> Rat(1, 2)]).ret

\* C20: a result's adf_test block is the error marker alone exactly when the
\* spread has fewer than 12 points or the test fails, and every other field of
\* the result is then what it is when the test succeeds; when the test runs,
\* is_stationary is true exactly when the reported p-value is below 0.05.  The
\* stationarity test never makes analyze_pair raise.
C20_AdfFailureConfined ==
  /\ FullResult =>
       LET adf == analysis.ret.adf_test
           spread == analysis.trace.spread
           fails == \/ Len(spread) < 12
                    \/ adf_outcome.raises
                    \/ AllSame(Values(spread))
       IN /\ adf.error = fails
          /\ adf.error => adf.nums = EmptyBlock /\ ~adf.is_stationary
          /\ [analysis.ret EXCEPT !.adf_test = AdfError]
               = [ReferenceResult EXCEPT !.adf_test = AdfError]
          /\ ~adf.error =>
               /\ DOMAIN adf.nums = AdfKeys
               /\ adf.is_stationary =
                    (adf.nums["p_value"].k = "rat"
                       /\ adf.nums["p_value"].sg * adf.nums["p_value"].n * 20
                            < adf.nums["p_value"].d)
  /\ analysis.ret.kind = "raised" => analysis.trace.regressed

\* the test failed on a spread of 12 varying points: the block holds the error
\* marker, the series, the statistics and the scalars are there
C20_Witness ==
  /\ FullResult
  /\ Len(analysis.trace.spread) >= 12
  /\ adf_outcome.raises
  /\ Distinct(analysis.trace.spread) > 1
  /\ analysis.ret.adf_test = AdfError
  /\ analysis.ret.series.spread # <<>>
  /\ analysis.ret.series.zscore # <<>>
  /\ analysis.ret.stats.spread # EmptyBlock
  /\ analysis.ret.current_zscore # None

----------------------------------------------------------------------------
(* Claims about MarketDataIngestion *)

\* C10: while the connector is running no symbol's loop has ended, and after
\* any failure in a symbol's loop (connection closed, connect attempt failed,
\* error while handling a message, error in the sink) that loop attempts to
\* connect again unless the connector is stopped.
C10_LoopsNeverEndWhileRunning ==
  /\ [](running => \A sym \in Symbols : pc[sym] # "done")
  /\ \A sym \in Symbols :
       (failure[sym] # "none")
         ~> (~running \/ (pc[sym] = "connect" /\ failure[sym] # "none"))

\* a loop that failed twice in different ways is back reading its third
\* connection while the other symbol's loop is up as well
C10_Witness ==
  /\ running
  /\ attempts["BTCUSDT"] = MaxAttempts
  /\ pc["BTCUSDT"] = "connect"
  /\ failure["BTCUSDT"] = "sink"
  /\ delivered["BTCUSDT"] >= 1
  /\ pc["ETHUSDT"] = "read"
  /\ ws_open["ETHUSDT"]

\* stop() has been called (it may still be closing connections)
StopCalled == phase \notin {"new", "started"}

\* C11: once stop() has been called no sink invocation is started, for any
\* symbol: a loop is awaiting the sink after a step only if it already was
\* before it, and a message received after stop() is discarded.
C11_NoSinkStartAfterStop ==
  [][StopCalled =>
       \A sym \in Symbols :
         /\ pc'[sym] = "sink" => pc[sym] = "sink"
         /\ delivered'[sym] # delivered[sym] => pc[sym] = "sink"]_vars

\* a connection established while stop() ran received a message, which was
\* discarded, while the other symbol's sink invocation, in flight at stop(),
\* completed
C11_Witness ==
  /\ StopCalled
  /\ dropped["BTCUSDT"]
  /\ delivered["BTCUSDT"] = 0
  /\ delivered["ETHUSDT"] = 1
  /\ ~dropped["ETHUSDT"]
  /\ pc["ETHUSDT"] = "done"

\* C13: each symbol's buffer holds the trade ticks the connector received for
\* that symbol, in the order received (the last Capacity of them), whatever the
\* other symbol's loop and the resampler did in between and across reconnects;
\* a loop awaiting its sink has that tick in the buffer already.
C13_BufferInReceiptOrder ==
  \A sym \in Symbols :
    /\ BufferOf(tick_buffer, sym) = LastN(received[sym], Capacity)
    /\ added[sym] = received[sym]
    /\ pc[sym] = "sink" =>
         /\ received[sym] # <<>>
         /\ tick_buffer[sym][Len(tick_buffer[sym])] = received[sym][Len(received[sym])]

\* two ticks of differing prices received over two connections, the other
\* symbol fed and the resampler run in between
C13_Witness ==
  /\ Len(received["BTCUSDT"]) = 2
  /\ received["BTCUSDT"][1] # received["BTCUSDT"][2]
  /\ attempts["BTCUSDT"] = MaxAttempts
  /\ received["ETHUSDT"] # <<>>
  /\ resampled_data # <<>>

\* C12 (as claimed): after stop() every symbol's loop eventually terminates
\* and no connection remains open.
C12_StopTerminatesAndCloses ==
  StopCalled ~> (\A sym \in Symbols : pc[sym] = "done" /\ ~ws_open[sym])

\* C21 (as claimed): a loop that has attempted to connect before starts a new
\* attempt only after the backoff wait.  The loop reaches its loop condition
\* again either from the backoff, with the failure that sent it there on
\* record, or straight from a connection that ended, with none on record.
C21_BackoffBeforeEveryReconnect ==
  [][\A sym \in Symbols :
       (pc[sym] = "while" /\ pc'[sym] = "connect" /\ attempts[sym] >= 1)
         => failure[sym] # "none"]_vars

\* C22 (as claimed): while the connector runs, a message that is not JSON, a
\* trade event lacking a field, or an event that is not a trade is skipped:
\* the loop keeps reading from the same open connection and nothing reaches
\* the sink.
C22_BadMessageSkipped ==
  [][\A sym \in Symbols, message \in Messages \ {"trade"} :
       (running /\ Read(sym, message))
         => /\ pc'[sym] = "read"
            /\ ws_open'[sym]
            /\ UNCHANGED <<websockets, attempts, delivered>>]_vars

\* C23 (as claimed): a pass that has ended called resample for every pair of
\* known symbol and configured timeframe, whatever failed on the way.
C23_PassCoversEveryPair ==
  loop_pc = "sleep" => pass_done = pass_pairs

\* C24: the z-score series of a result has exactly one point, a finite one,
\* for each position of the spread from the W-th on whose trailing window of
\* W spread values is not constant, and none elsewhere; when the whole spread
\* is constant the z-score series is empty, current_zscore is missing and no
\* spread or z-score series is emitted.
C24_ZScoreOnlyWhereStdPositive ==
  FullResult =>
    LET spread == analysis.trace.spread
        zscore == analysis.trace.zscore
        W == in_window
        Flat(i) == \A j \in (i - W + 1)..i : spread[j].v = spread[i].v
        kept == {i \in 1..Len(spread) : i >= W /\ ~Flat(i)}
    IN /\ Len(spread) >= W
       /\ Len(zscore) = Cardinality(kept)
       /\ Times(zscore) = {spread[i].t : i \in kept}
       /\ \A k \in 1..Len(zscore) : IsFinite(zscore[k].v)
       /\ Distinct(spread) = 1 =>
            /\ zscore = <<>>
            /\ analysis.ret.current_zscore = None
            /\ analysis.ret.series.zscore = <<>>
            /\ analysis.ret.series.spread = <<>>

\* a result whose spread has a constant window past the warm-up, dropped from
\* a z-score series that has points elsewhere
C24_Witness ==
  /\ FullResult
  /\ in_window >= 2
  /\ analysis.trace.zscore # <<>>
  /\ \E i \in in_window..Len(analysis.trace.spread) :
       /\ \A j \in (i - in_window + 1)..i :
            analysis.trace.spread[j].v = analysis.trace.spread[i].v
       /\ analysis.trace.spread[i].t \notin Times(analysis.trace.zscore)

\* C25 (as claimed): whenever analyze_pair returns a result,
\* compute_ols_hedge_ratio on the same two series yields the same hedge ratio
\* and r^2: 1.0 and 0.0 when fewer than 10 points align, the slope and the
\* squared correlation of the regression otherwise.
C25_EstimatorAgreesWithPipeline ==
  (FullResult /\ ols.kind # "pending") =>
    /\ ols.kind = "value"
    /\ ols.hedge_ratio = analysis.ret.hedge_ratio
    /\ ols.r_squared = analysis.ret.r_squared
    /\ NAligned < 10 =>
         /\ ols.hedge_ratio = Rat(1, 1)
         /\ ols.r_squared = Rat(0, 1)

============================================================================
